---- MODULE Spec2Model ----
(***************************************************************************)
(* A model of package easyhttpserver: Options.Verify / Options.BaseURL,    *)
(* Start, Server.Wait, Server.Shutdown / gracefulShutdown, the two         *)
(* listener goroutines that report on the completion channel errc, and     *)
(* InterceptShutdownSignals with its goroutine.                            *)
(*                                                                         *)
(* Go strings on which the code computes (Host, PrimaryScheme, the base    *)
(* URL, the endpoints) are sequences of one-character strings, so that     *)
(* strings.HasPrefix, strconv.Itoa and fmt.Sprintf are computed.  Strings  *)
(* the code only compares with "" (email, cache dir) and error values are  *)
(* TLA+ strings.                                                           *)
(*                                                                         *)
(* net/http.Server is modelled by what ListenAndServe, Shutdown and Close  *)
(* do to one server: the inShutdown flag, the tracked listener, the active *)
(* connections, and the error the listener's Close reports.  A panic in    *)
(* Shutdown ends that call after its deferred calls ran; what the caller   *)
(* does with the panic is outside the package.                             *)
(***************************************************************************)
EXTENDS Integers, Sequences, FiniteSets, TLC

\* ------------------------------------------------------------------ bounds

\* Number of Shutdown calls made on one handle.
MaxShutdowns == 2
\* Number of Wait calls made on one handle.
MaxWaiters == 2
\* Number of Verify calls the caller makes on one record.
MaxVerifyCalls == 2
\* Number of Shutdown calls and of Wait calls under fair scheduling (FairSpec).
MaxFairShutdowns == 1
MaxFairWaiters == 1
\* Number of InterceptShutdownSignals calls and of signals raised in the process.
MaxRegistrations == 2
MaxSignals == 3

\* --------------------------------------------------------- program constants

\* Port used when Port is unset and the host is not local; port Let's Encrypt needs.
HTTPPort == 80
\* Default graceful shutdown timeout, in seconds.
DefaultGracefulShutdownTimeout == 10
\* Capacity of the completion channel.
ErrcCap == 2
\* Capacity of the channel InterceptShutdownSignals hands to signal.Notify.
SigCap == 1

\* ------------------------------------------------------------------ strings

S_localhost == <<"l","o","c","a","l","h","o","s","t">>
S_localhostColon == S_localhost \o <<":">>
S_localhost8080 == S_localhostColon \o <<"8","0","8","0">>
S_myhost == <<"m","y","h","o","s","t",".","e","x","a","m","p","l","e",".","c","o","m">>
S_http == <<"h","t","t","p">>
S_https == <<"h","t","t","p","s">>
S_schemeSep == <<":","/","/">>
S_loopbackColon == <<"1","2","7",".","0",".","0",".","1",":">>
S_empty == <<>>

HasPrefix(s, prefix) ==
    /\ Len(s) >= Len(prefix)
    /\ SubSeq(s, 1, Len(prefix)) = prefix

DigitChar(d) == <<"0","1","2","3","4","5","6","7","8","9">>[d + 1]

RECURSIVE Digits(_)
Digits(n) == IF n < 10 THEN <<DigitChar(n)>>
             ELSE Digits(n \div 10) \o <<DigitChar(n % 10)>>

Itoa(n) == IF n < 0 THEN <<"-">> \o Digits(-n) ELSE Digits(n)

\* ------------------------------------------------------------------- errors

Nil == "nil"
ErrMissingPort == "missing PORT for local development"
ErrLocalhost == "Let's Encrypt is not supported on localhost"
ErrMissingHost == "missing HOST when LETSENCRYPT_ENABLED is true"
ErrMissingEmail == "missing LETSENCRYPT_EMAIL when LETSENCRYPT_ENABLED is true"
ErrMissingCacheDir == "missing LETSENCRYPT_CACHE_DIR when LETSENCRYPT_ENABLED is true"
ErrPort == "Let's Encrypt requires HTTP port to be 80, got port %d instead"
ErrACME == "ACMEv2 is not supported by this Go build"
ErrCacheAccess == "cannot access Let's Encrypt cache dir"
ErrCacheNotDir == "Let's Encrypt cache dir is not a directory"
DeadlineExceeded == "context deadline exceeded"
ErrServerClosed == "http: Server closed"
ErrListenerClose == "close tcp: listener close failed"
LetsEncryptProductionURL == "https://acme-v02.api.letsencrypt.org/directory"

\* ------------------------------------------------------------------ Options

\* Verify, step 1: the local-development flag is set, never cleared.
DetectLocal(o) ==
    IF o.Host = S_empty \/ o.Host = S_localhost \/ HasPrefix(o.Host, S_localhostColon)
    THEN [o EXCEPT !.IsLocalDevelopmentHost = TRUE]
    ELSE o

\* Verify, step 2: the error of resolving an unset port, or Nil.
ResolvePortErr(o) ==
    IF o.Port = 0 /\ o.IsLocalDevelopmentHost /\ o.DefaultDevPort = 0
    THEN ErrMissingPort ELSE Nil

\* A mutant of ResolvePort: in TLS mode the port is set to 80.
ResolvePortForcedInTLS(o) ==
    IF o.LetsEncrypt /\ ~o.IsLocalDevelopmentHost
    THEN [o EXCEPT !.Port = HTTPPort]
    ELSE IF o.Port = 0
    THEN [o EXCEPT !.Port = IF o.IsLocalDevelopmentHost THEN o.DefaultDevPort ELSE HTTPPort]
    ELSE o

\* Verify, step 2: the record with an unset port resolved.
ResolvePort(o) ==
    IF o.Port = 0
    THEN [o EXCEPT !.Port = IF o.IsLocalDevelopmentHost THEN o.DefaultDevPort ELSE HTTPPort]
    ELSE o

\* A mutant of the Let's Encrypt checks: the port check is missing.
LetsEncryptErrNoPortCheck(o) ==
    IF ~o.LetsEncrypt THEN Nil
    ELSE IF o.IsLocalDevelopmentHost THEN ErrLocalhost
    ELSE IF o.Host = S_empty THEN ErrMissingHost
    ELSE IF o.LetsEncryptEmail = "" THEN ErrMissingEmail
    ELSE IF o.LetsEncryptCacheDir = "" THEN ErrMissingCacheDir
    ELSE Nil

\* Verify, step 3: the error of the Let's Encrypt checks, in the code's order, or Nil.
LetsEncryptErr(o) ==
    IF ~o.LetsEncrypt THEN Nil
    ELSE IF o.IsLocalDevelopmentHost THEN ErrLocalhost
    ELSE IF o.Host = S_empty THEN ErrMissingHost
    ELSE IF o.LetsEncryptEmail = "" THEN ErrMissingEmail
    ELSE IF o.LetsEncryptCacheDir = "" THEN ErrMissingCacheDir
    ELSE IF o.Port # HTTPPort THEN ErrPort
    ELSE Nil

\* A mutant of SetSchemeAndHost: the host of a local server is not synthesized.
SetSchemeAndHostKeepsHost(o) ==
    [o EXCEPT !.PrimaryScheme = IF o.IsLocalDevelopmentHost THEN S_http ELSE S_https]

\* A mutant of SetSchemeAndHost: the port is appended to the host of every local
\* server.
SetSchemeAndHostAppendsPort(o) ==
    LET s == [o EXCEPT !.PrimaryScheme =
                  IF o.IsLocalDevelopmentHost THEN S_http ELSE S_https]
    IN  IF s.IsLocalDevelopmentHost
        THEN [s EXCEPT !.Host = (IF s.Host = S_empty THEN S_localhost ELSE s.Host)
                                   \o <<":">> \o Itoa(s.Port)]
        ELSE s

\* Verify, steps 4 and 5: the scheme, and the host of a local server.
SetSchemeAndHost(o) ==
    LET s == [o EXCEPT !.PrimaryScheme =
                  IF o.IsLocalDevelopmentHost THEN S_http ELSE S_https]
    IN  IF s.Host = S_empty \/ s.Host = S_localhost
        THEN [s EXCEPT !.Host = S_localhostColon \o Itoa(s.Port)]
        ELSE s

\* Options.Verify: the error returned and the record as the call leaves it.
Verify(o) ==
    LET o1 == DetectLocal(o) IN
    IF ResolvePortErr(o1) # Nil THEN [err |-> ResolvePortErr(o1), opt |-> o1]
    ELSE LET o2 == ResolvePort(o1) IN
         IF LetsEncryptErr(o2) # Nil THEN [err |-> LetsEncryptErr(o2), opt |-> o2]
         ELSE [err |-> Nil, opt |-> SetSchemeAndHost(o2)]

\* A mutant of BaseURL: the scheme is not checked.
BaseURLUnchecked(o) ==
    IF o.Host = S_empty THEN [panic |-> "missing HOST", url |-> S_empty]
    ELSE [panic |-> Nil, url |-> o.PrimaryScheme \o S_schemeSep \o o.Host]

\* Options.BaseURL: panics before Verify or without a host.
BaseURL(o) ==
    IF o.PrimaryScheme = S_empty THEN [panic |-> "BaseURL before Verify", url |-> S_empty]
    ELSE IF o.Host = S_empty THEN [panic |-> "missing HOST", url |-> S_empty]
    ELSE [panic |-> Nil, url |-> o.PrimaryScheme \o S_schemeSep \o o.Host]

\* A fresh record as a caller builds it: the derived settings are unset.
NewOptions(host, port, devPort, le, email, dir, timeout, log) ==
    [ Log |-> log, DefaultDevPort |-> devPort, GracefulShutdownTimeout |-> timeout,
      Port |-> port, Host |-> host, LetsEncrypt |-> le,
      LetsEncryptCacheDir |-> dir, LetsEncryptEmail |-> email,
      IsLocalDevelopmentHost |-> FALSE, PrimaryScheme |-> S_empty ]

\* The records the validator is checked on.
VerifyInputs ==
    { NewOptions(h, p, d, le, e, c, 0, Nil) :
        h \in {S_empty, S_localhost, S_localhost8080, S_myhost},
        p \in {0, 80, 8080}, d \in {0, 3001}, le \in BOOLEAN,
        e \in {"", "you@example.com"}, c \in {"", "/tmp/cache"} }

ACMEStagingURL == "https://acme-staging-v02.api.letsencrypt.org/directory"

\* The development default of Example_defaultDevServer, a public host on port
\* 8080 without TLS, and the TLS server of Example_manualConfig.
DevOptions == NewOptions(S_empty, 0, 3099, FALSE, "", "", 2, Nil)
PlainOptions == NewOptions(S_myhost, 8080, 3099, FALSE, "", "", 0, "logfn")
TLSOptions == NewOptions(S_myhost, 0, 3099, TRUE, "you@example.com", "/tmp/cache", 2, "logfn")

\* The cases the server is started in: a record, the build's ACME endpoint and
\* what is found at the cache directory.  The first three start; the others
\* fail in Verify, at the ACME endpoint guard and at the cache directory.
StartCases ==
    { [opt |-> DevOptions, url |-> LetsEncryptProductionURL, stat |-> "missing"],
      [opt |-> PlainOptions, url |-> LetsEncryptProductionURL, stat |-> "missing"],
      [opt |-> TLSOptions, url |-> LetsEncryptProductionURL, stat |-> "dir"],
      [opt |-> [TLSOptions EXCEPT !.Port = 8080], url |-> LetsEncryptProductionURL, stat |-> "dir"],
      [opt |-> [DevOptions EXCEPT !.DefaultDevPort = 0], url |-> LetsEncryptProductionURL, stat |-> "missing"],
      [opt |-> DevOptions, url |-> ACMEStagingURL, stat |-> "missing"],
      [opt |-> TLSOptions, url |-> ACMEStagingURL, stat |-> "dir"],
      [opt |-> TLSOptions, url |-> LetsEncryptProductionURL, stat |-> "missing"],
      [opt |-> TLSOptions, url |-> LetsEncryptProductionURL, stat |-> "file"] }

\* -------------------------------------------------------------------- state

Servers == {"http", "https"}
Callers == 1..MaxShutdowns
Waiters == 1..MaxWaiters
FairCallers == 1..MaxFairShutdowns
FairWaiters == 1..MaxFairWaiters
Registrations == 1..MaxRegistrations

\* The signals InterceptShutdownSignals asks for: os.Interrupt, os.Kill and
\* syscall.SIGHUP.  SIGKILL cannot be caught by a process.
Signals == {"SIGINT", "SIGKILL", "SIGHUP"}
Catchable == {"SIGINT", "SIGHUP"}

VARIABLES
    input,          \* the Options record as the caller built it
    sopt,           \* the caller's Options record
    verifyErr,      \* result of the caller's last Verify call, "notcalled" before
    verifyCalls,    \* number of Verify calls the caller made
    baseURLResult,  \* result of the caller's last Options.BaseURL call, <<"notcalled">> before
    acmeURL,        \* acme.LetsEncryptURL of the build
    cacheDirStat,   \* what os.Stat finds at the cache dir: "missing", "file", "dir"
    startpc,        \* Start: "init", "tls" (TLS goroutine started), "returned", "failed", "panicked"
    startErr,       \* the error Start returned
    startOpt,       \* Start's own copy of the options
    srv,            \* the Server handle
    gpc,            \* per server, its goroutine: "none", "spawned", "serving", "send", "done"
    gerr,           \* per server, the err of its goroutine
    inShutdown,     \* per server, http.Server's inShutdown flag
    closeErr,       \* per server, what closing its tracked listener reported, "open" before
    busy,           \* per server, whether a connection is serving a request
    errc,           \* the completion channel
    wpc,            \* per Wait call: "idle", "recvHttp", "recvHttps", "returned"
    werr,           \* per Wait call, its err
    wrecv,          \* per Wait call, the completions it received, in order
    sdpc,           \* per Shutdown call, its position
    sderr,          \* per Shutdown call, the err of the graceful function while it runs
    sdlnerr,        \* per Shutdown call, the listener error of the http.Server.Shutdown in progress
    sdpanic,        \* per Shutdown call, the value it is panicking with, Nil if none
    sdforced,       \* per Shutdown call, the servers it applied Close to, in order
    sdquiet,        \* per Shutdown call, whether every listener was closed when it was made
    logOut,         \* what was handed to the Options.Log function
    sigpc,          \* per InterceptShutdownSignals call, its goroutine: "none", "recv", "reset", "call", "done"
    sigc,           \* per InterceptShutdownSignals call, its channel c
    sigNotify,      \* per InterceptShutdownSignals call, whether signals are relayed to its channel
    sigCalls,       \* per InterceptShutdownSignals call, how often its shutdown function was invoked
    sigSeen,        \* number of signals raised so far
    procAlive       \* whether the process is running

vars == << input, sopt, verifyErr, verifyCalls, baseURLResult, acmeURL, cacheDirStat,
           startpc, startErr, startOpt, srv, gpc, gerr, inShutdown, closeErr, busy,
           errc, wpc, werr, wrecv, sdpc, sderr, sdlnerr, sdpanic, sdforced, sdquiet, logOut,
           sigpc, sigc, sigNotify, sigCalls, sigSeen, procAlive >>

optVars == << input, sopt, verifyErr, verifyCalls, baseURLResult >>
envVars == << acmeURL, cacheDirStat >>
startVars == << startpc, startErr, startOpt, srv >>
serverVars == << gpc, gerr, inShutdown, closeErr, busy >>
waitVars == << wpc, werr, wrecv >>
sdVars == << sdpc, sderr, sdlnerr, sdpanic, sdforced, sdquiet, logOut >>
sigVars == << sigpc, sigc, sigNotify, sigCalls, sigSeen, procAlive >>

NoServer == [ httpServer |-> FALSE, httpsServer |-> FALSE, gracefulShutdownTimeout |-> 0,
              log |-> Nil, baseURL |-> S_empty, endpoints |-> <<>> ]

\* The process before InterceptShutdownSignals is called and any signal is raised.
SignalsInit ==
    /\ sigpc = [r \in Registrations |-> "none"]
    /\ sigc = [r \in Registrations |-> <<>>]
    /\ sigNotify = [r \in Registrations |-> FALSE]
    /\ sigCalls = [r \in Registrations |-> 0]
    /\ sigSeen = 0
    /\ procAlive = TRUE

InitRest ==
    /\ SignalsInit
    /\ sopt = input
    /\ verifyErr = "notcalled"
    /\ verifyCalls = 0
    /\ baseURLResult = <<"notcalled">>
    /\ startpc = "init"
    /\ startErr = Nil
    /\ startOpt = input
    /\ srv = NoServer
    /\ gpc = [s \in Servers |-> "none"]
    /\ gerr = [s \in Servers |-> Nil]
    /\ inShutdown = [s \in Servers |-> FALSE]
    /\ closeErr = [s \in Servers |-> "open"]
    /\ busy = [s \in Servers |-> FALSE]
    /\ errc = <<>>
    /\ wpc = [w \in Waiters |-> "idle"]
    /\ werr = [w \in Waiters |-> Nil]
    /\ wrecv = [w \in Waiters |-> <<>>]
    /\ sdpc = [c \in Callers |-> "idle"]
    /\ sderr = [c \in Callers |-> Nil]
    /\ sdlnerr = [c \in Callers |-> Nil]
    /\ sdpanic = [c \in Callers |-> Nil]
    /\ sdforced = [c \in Callers |-> <<>>]
    /\ sdquiet = [c \in Callers |-> FALSE]
    /\ logOut = <<>>

Init ==
    /\ \E k \in StartCases : input = k.opt /\ acmeURL = k.url /\ cacheDirStat = k.stat
    /\ InitRest

VerifyInit ==
    /\ input \in VerifyInputs
    /\ acmeURL \in {LetsEncryptProductionURL, ACMEStagingURL}
    /\ cacheDirStat \in {"missing", "file", "dir"}
    /\ InitRest

\* ------------------------------------------------------- Options operations

\* The caller calls sopt.Verify().
VerifyCall ==
    /\ startpc = "init"
    /\ verifyCalls < MaxVerifyCalls
    /\ sopt' = Verify(sopt).opt
    /\ verifyErr' = Verify(sopt).err
    /\ verifyCalls' = verifyCalls + 1
    /\ UNCHANGED << input, baseURLResult >>
    /\ UNCHANGED << envVars, sigVars, startVars, serverVars, errc, waitVars, sdVars >>

\* The caller calls sopt.BaseURL().
BaseURLCall ==
    /\ startpc = "init"
    /\ baseURLResult' = (IF BaseURL(sopt).panic # Nil
                         THEN <<"panic", BaseURL(sopt).panic>>
                         ELSE <<"url", BaseURL(sopt).url>>)
    /\ UNCHANGED << input, sopt, verifyErr, verifyCalls >>
    /\ UNCHANGED << envVars, sigVars, startVars, serverVars, errc, waitVars, sdVars >>

\* -------------------------------------------------------------------- Start

\* Start's first lines: Verify runs unless the record has a scheme already.
StartVerify(o) ==
    IF o.PrimaryScheme = S_empty THEN Verify(o) ELSE [err |-> Nil, opt |-> o]

\* The graceful shutdown timeout Start puts in the handle.
StartTimeout(o) ==
    IF o.GracefulShutdownTimeout = 0 THEN DefaultGracefulShutdownTimeout
    ELSE o.GracefulShutdownTimeout

\* The setup error of Start after validation: the ACME endpoint guard, then the
\* cache directory checks of the TLS mode.
StartSetupErr(o, url, stat) ==
    IF url # LetsEncryptProductionURL THEN ErrACME
    ELSE IF o.LetsEncrypt /\ (stat = "missing" \/ o.LetsEncryptCacheDir = "") THEN ErrCacheAccess
    ELSE IF o.LetsEncrypt /\ stat # "dir" THEN ErrCacheNotDir
    ELSE Nil

\* A mutant of StartEndpoints: the loopback address is added on local hosts too.
StartEndpointsIgnoringLocal(o) ==
    <<BaseURL(o).url>> \o
    (IF o.Port # HTTPPort
     THEN <<S_loopbackColon \o Itoa(o.Port)>> ELSE <<>>)

\* A mutant of StartEndpoints: the loopback address is never added.
StartEndpointsNoLoopback(o) == <<BaseURL(o).url>>

\* The endpoints Start computes.
StartEndpoints(o) ==
    <<BaseURL(o).url>> \o
    (IF ~o.IsLocalDevelopmentHost /\ o.Port # HTTPPort
     THEN <<S_loopbackColon \o Itoa(o.Port)>> ELSE <<>>)

\* The handle Start builds first: errc, the timeout and the base URL; log is not set.
NewServer(o) ==
    [ NoServer EXCEPT !.gracefulShutdownTimeout = StartTimeout(o),
                      !.baseURL = BaseURL(o).url ]

\* A mutant of StartOutcome: the TLS goroutine is started before the cache
\* directory is checked.
StartOutcomeEarlyTLS(o0, url, stat) ==
    LET v == StartVerify(o0)
        o == v.opt
        e == StartSetupErr(o, url, stat)
    IN  IF v.err # Nil
        THEN [pc |-> "failed", err |-> v.err, opt |-> o0, srv |-> NoServer, spawned |-> {}]
        ELSE IF BaseURL(o).panic # Nil
        THEN [pc |-> "panicked", err |-> Nil, opt |-> o0, srv |-> NoServer, spawned |-> {}]
        ELSE IF e # Nil
        THEN [pc |-> "failed", err |-> e, opt |-> o0, srv |-> NoServer,
              spawned |-> IF o.LetsEncrypt /\ e # ErrACME THEN {"https"} ELSE {}]
        ELSE IF o.LetsEncrypt
        THEN [pc |-> "tls", err |-> Nil, opt |-> o,
              srv |-> [NewServer(o) EXCEPT !.httpsServer = TRUE], spawned |-> {"https"}]
        ELSE [pc |-> "returned", err |-> Nil, opt |-> o,
              srv |-> [NewServer(o) EXCEPT !.httpServer = TRUE,
                                           !.endpoints = StartEndpoints(o)],
              spawned |-> {"http"}]

\* Start, up to its first go statement or its return: where it stands, the error
\* and the handle it returns, its copy of the options, the goroutines it started.
StartOutcome(o0, url, stat) ==
    LET v == StartVerify(o0)
        o == v.opt
        e == StartSetupErr(o, url, stat)
    IN  IF v.err # Nil
        THEN [pc |-> "failed", err |-> v.err, opt |-> o0, srv |-> NoServer, spawned |-> {}]
        ELSE IF BaseURL(o).panic # Nil
        THEN [pc |-> "panicked", err |-> Nil, opt |-> o0, srv |-> NoServer, spawned |-> {}]
        ELSE IF e # Nil
        THEN [pc |-> "failed", err |-> e, opt |-> o0, srv |-> NoServer, spawned |-> {}]
        ELSE IF o.LetsEncrypt
        THEN [pc |-> "tls", err |-> Nil, opt |-> o,
              srv |-> [NewServer(o) EXCEPT !.httpsServer = TRUE], spawned |-> {"https"}]
        ELSE [pc |-> "returned", err |-> Nil, opt |-> o,
              srv |-> [NewServer(o) EXCEPT !.httpServer = TRUE,
                                           !.endpoints = StartEndpoints(o)],
              spawned |-> {"http"}]

\* The caller calls Start(handler, sopt); Start works on its own copy of sopt.
StartBegin ==
    /\ startpc = "init"
    /\ LET r == StartOutcome(sopt, acmeURL, cacheDirStat)
       IN  /\ startpc' = r.pc
           /\ startErr' = r.err
           /\ startOpt' = r.opt
           /\ srv' = r.srv
           /\ gpc' = [s \in Servers |-> IF s \in r.spawned THEN "spawned" ELSE gpc[s]]
    /\ UNCHANGED << optVars, envVars, sigVars, gerr, inShutdown, closeErr, busy, errc, waitVars, sdVars >>

\* Start in TLS mode, from the plain server's go statement to its return.
StartFinish ==
    /\ startpc = "tls"
    /\ startpc' = "returned"
    /\ srv' = [srv EXCEPT !.httpServer = TRUE, !.endpoints = StartEndpoints(startOpt)]
    /\ gpc' = [gpc EXCEPT !["http"] = "spawned"]
    /\ UNCHANGED << startErr, startOpt >>
    /\ UNCHANGED << optVars, envVars, sigVars, gerr, inShutdown, closeErr, busy, errc, waitVars, sdVars >>

\* --------------------------------------------------- the listener goroutines

\* The error ListenAndServe of s returns when it fails on its own, to listen or
\* to accept.
OwnErr(s) == IF s = "http" THEN "ListenAndServe: error" ELSE "ListenAndServeTLS: error"
OwnErrors == {OwnErr(s) : s \in Servers}

\* A mutant of Completion: ErrServerClosed is reported as it is.
CompletionRaw(err) == err

\* What a goroutine sends for the error ListenAndServe returned.
Completion(err) == IF err = ErrServerClosed THEN Nil ELSE err

\* The listener of s is tracked by its server and open.
ListenerOpen(s) == gpc[s] = "serving" /\ closeErr[s] = "open"

\* ListenAndServe begins: it returns ErrServerClosed on a server that is shutting
\* down, and listens otherwise.
Listen(s) ==
    /\ gpc[s] = "spawned"
    /\ IF inShutdown[s]
       THEN /\ gpc' = [gpc EXCEPT ![s] = "send"]
            /\ gerr' = [gerr EXCEPT ![s] = Completion(ErrServerClosed)]
       ELSE /\ gpc' = [gpc EXCEPT ![s] = "serving"]
            /\ UNCHANGED gerr
    /\ UNCHANGED << optVars, envVars, sigVars, startVars, inShutdown, closeErr, busy, errc, waitVars, sdVars >>

\* ListenAndServe fails to listen.
ListenFail(s) ==
    /\ gpc[s] = "spawned"
    /\ ~inShutdown[s]
    /\ gpc' = [gpc EXCEPT ![s] = "send"]
    /\ gerr' = [gerr EXCEPT ![s] = Completion(OwnErr(s))]
    /\ UNCHANGED << optVars, envVars, sigVars, startVars, inShutdown, closeErr, busy, errc, waitVars, sdVars >>

\* The accept loop fails on its own: Serve returns the error.
ServeFail(s) ==
    /\ gpc[s] = "serving"
    /\ ~inShutdown[s]
    /\ gpc' = [gpc EXCEPT ![s] = "send"]
    /\ gerr' = [gerr EXCEPT ![s] = Completion(OwnErr(s))]
    /\ UNCHANGED << optVars, envVars, sigVars, startVars, inShutdown, closeErr, busy, errc, waitVars, sdVars >>

\* The accept loop finds its listener closed by Shutdown or Close: Serve returns
\* ErrServerClosed and the server tracks the listener no more.
ServeClosed(s) ==
    /\ gpc[s] = "serving"
    /\ closeErr[s] # "open"
    /\ gpc' = [gpc EXCEPT ![s] = "send"]
    /\ gerr' = [gerr EXCEPT ![s] = Completion(ErrServerClosed)]
    /\ closeErr' = [closeErr EXCEPT ![s] = "open"]
    /\ UNCHANGED << optVars, envVars, sigVars, startVars, inShutdown, busy, errc, waitVars, sdVars >>

\* A mutant of HasRoom: the channel is unbuffered as far as senders go, a send
\* completes only into an empty channel.
HasRoomForOne(q) == Len(q) < 1

\* A send on the buffered channel q completes when the buffer is not full.
HasRoom(q) == Len(q) < ErrcCap

\* errc <- err
Send(s) ==
    /\ gpc[s] = "send"
    /\ HasRoom(errc)
    /\ errc' = Append(errc, gerr[s])
    /\ gpc' = [gpc EXCEPT ![s] = "done"]
    /\ UNCHANGED << optVars, envVars, sigVars, startVars, gerr, inShutdown, closeErr, busy, waitVars, sdVars >>

\* A request arrives on an open listener.
ConnBegin(s) ==
    /\ ListenerOpen(s)
    /\ ~busy[s]
    /\ busy' = [busy EXCEPT ![s] = TRUE]
    /\ UNCHANGED << optVars, envVars, sigVars, startVars, gpc, gerr, inShutdown, closeErr, errc, waitVars, sdVars >>

\* The request in flight completes.
ConnEnd(s) ==
    /\ busy[s]
    /\ busy' = [busy EXCEPT ![s] = FALSE]
    /\ UNCHANGED << optVars, envVars, sigVars, startVars, gpc, gerr, inShutdown, closeErr, errc, waitVars, sdVars >>

\* --------------------------------------------------------------------- Wait

\* A mutant of WaitErr: the last error received wins.
WaitErrLast(err, e) == IF e # Nil THEN e ELSE err

\* if err == nil { err = e }
WaitErr(err, e) == IF err = Nil THEN e ELSE err

\* Where Wait stands after the receive for the plain server (or without one).
WaitAfterHttp == IF srv.httpsServer THEN "recvHttps" ELSE "returned"

\* A caller calls srv.Wait(); the calls are numbered in the order they are made.
WaitCall(w) ==
    /\ startpc = "returned"
    /\ wpc[w] = "idle"
    /\ IF w = 1 THEN TRUE ELSE wpc[w - 1] # "idle"
    /\ wpc' = [wpc EXCEPT ![w] = IF srv.httpServer THEN "recvHttp" ELSE WaitAfterHttp]
    /\ UNCHANGED << optVars, envVars, sigVars, startVars, serverVars, errc, werr, wrecv, sdVars >>

\* A mutant of WaitRecvHttp: the completion is read and left in the channel.
WaitRecvHttpPeek(w) ==
    /\ wpc[w] = "recvHttp"
    /\ errc # <<>>
    /\ errc' = errc
    /\ werr' = [werr EXCEPT ![w] = WaitErr(werr[w], Head(errc))]
    /\ wrecv' = [wrecv EXCEPT ![w] = Append(wrecv[w], Head(errc))]
    /\ wpc' = [wpc EXCEPT ![w] = WaitAfterHttp]
    /\ UNCHANGED << optVars, envVars, sigVars, startVars, serverVars, sdVars >>

\* The receive guarded by srv.httpServer != nil.
WaitRecvHttp(w) ==
    /\ wpc[w] = "recvHttp"
    /\ errc # <<>>
    /\ errc' = Tail(errc)
    /\ werr' = [werr EXCEPT ![w] = WaitErr(werr[w], Head(errc))]
    /\ wrecv' = [wrecv EXCEPT ![w] = Append(wrecv[w], Head(errc))]
    /\ wpc' = [wpc EXCEPT ![w] = WaitAfterHttp]
    /\ UNCHANGED << optVars, envVars, sigVars, startVars, serverVars, sdVars >>

\* The receive guarded by srv.httpsServer != nil; Wait returns err.
WaitRecvHttps(w) ==
    /\ wpc[w] = "recvHttps"
    /\ errc # <<>>
    /\ errc' = Tail(errc)
    /\ werr' = [werr EXCEPT ![w] = WaitErr(werr[w], Head(errc))]
    /\ wrecv' = [wrecv EXCEPT ![w] = Append(wrecv[w], Head(errc))]
    /\ wpc' = [wpc EXCEPT ![w] = "returned"]
    /\ UNCHANGED << optVars, envVars, sigVars, startVars, serverVars, sdVars >>

\* ----------------------------------------------------------------- Shutdown

\* What closing the listener of s can report to an http.Server.Shutdown or Close
\* that begins now: the result of the close it performs on an open listener; on
\* a listener closed before and still tracked, the result kept from that close
\* or nil (the library forgets closed listeners in some releases); nil when no
\* listener is tracked.
ListenerCloseResults(s) ==
    IF ListenerOpen(s) THEN {Nil, ErrListenerClose}
    ELSE IF gpc[s] = "serving" THEN {Nil, closeErr[s]}
    ELSE {Nil}

\* The closeErr of s after a close that reported e.
ClosedWith(s, e) == IF ListenerOpen(s) THEN [closeErr EXCEPT ![s] = e] ELSE closeErr

\* http.Server.Shutdown begins on s for call c: inShutdown is set, the listener
\* is closed.
ServerShutdownBegin(c, s) ==
    /\ inShutdown' = [inShutdown EXCEPT ![s] = TRUE]
    /\ \E e \in ListenerCloseResults(s) :
          /\ closeErr' = ClosedWith(s, e)
          /\ sdlnerr' = [sdlnerr EXCEPT ![c] = e]

\* What http.Server.Shutdown returns on s when it stops polling: the listener
\* error once no connection is active, the context's error otherwise.
ServerShutdownResult(c, s) == IF busy[s] THEN DeadlineExceeded ELSE sdlnerr[c]

\* http.Server.Close on s: inShutdown is set, the listener and every connection
\* are closed; the error is dropped.
ServerClose(s) ==
    /\ inShutdown' = [inShutdown EXCEPT ![s] = TRUE]
    /\ \E e \in ListenerCloseResults(s) : closeErr' = ClosedWith(s, e)
    /\ busy' = [busy EXCEPT ![s] = FALSE]

\* Server s was started.
Started(s) == gpc[s] # "none"

\* Every started server is closed: it is shutting down, its listener is closed
\* and reported no error that the server still holds, and no connection is left.
AllClosed ==
    \A s \in Servers : Started(s) =>
        inShutdown[s] /\ ~ListenerOpen(s) /\ closeErr[s] # ErrListenerClose /\ ~busy[s]

\* if err == nil { err = err2 }
GracefulErr(err, err2) == IF err = Nil THEN err2 ELSE err

\* A mutant of Panics: the deadline's error is not told apart.
PanicsOnAnyError(err) == err # Nil

\* gracefulShutdown panics with err unless err is nil or the deadline's.
Panics(err) == err # Nil /\ err # DeadlineExceeded

\* The value gracefulShutdown panics with after graceful returned err, or Nil.
PanicValue(err) == IF Panics(err) THEN err ELSE Nil

\* Server.Log, called by gracefulShutdown when the deadline expired: it forwards
\* to srv.log unless that is nil.
LogTimeout(err) ==
    IF err = DeadlineExceeded /\ srv.log # Nil
    THEN Append(logOut, "graceful shutdown timed out, will close connections forcibly")
    ELSE logOut

\* A mutant of AfterGraceful: forceful is called at the end of gracefulShutdown
\* and not deferred.
AfterGracefulNotDeferred(err) == IF Panics(err) THEN "panicked" ELSE "closeHttp"

\* Where gracefulShutdown goes after graceful returned: forceful is deferred, so it
\* runs whether or not gracefulShutdown panics.
AfterGraceful(err) == "closeHttp"

\* Where the call ends after forceful ran: the panic, if any, reaches the caller.
SdEnd(c) == IF sdpanic[c] # Nil THEN "panicked" ELSE "returned"

\* graceful returned e to gracefulShutdown in call c.
GracefulReturns(c, e) ==
    /\ sdpc' = [sdpc EXCEPT ![c] = AfterGraceful(e)]
    /\ sdpanic' = [sdpanic EXCEPT ![c] = PanicValue(e)]
    /\ logOut' = LogTimeout(e)
    /\ sderr' = [sderr EXCEPT ![c] = Nil]

\* A caller calls srv.Shutdown(): the context is made and
\* srv.httpServer.Shutdown(ctx) begins.  The calls are numbered in the order
\* they are made.
SdBegin(c) ==
    /\ startpc = "returned"
    /\ sdpc[c] = "idle"
    /\ IF c = 1 THEN TRUE ELSE sdpc[c - 1] # "idle"
    /\ ServerShutdownBegin(c, "http")
    /\ sdpc' = [sdpc EXCEPT ![c] = "pollHttp"]
    /\ sdquiet' = [sdquiet EXCEPT ![c] = AllClosed]
    /\ UNCHANGED << optVars, envVars, sigVars, startVars, gpc, gerr, busy, errc, waitVars,
                    sderr, sdpanic, sdforced, logOut >>

\* srv.httpServer.Shutdown(ctx) returns; without a TLS server graceful returns.
SdPollHttp(c) ==
    /\ sdpc[c] = "pollHttp"
    /\ IF srv.httpsServer
       THEN /\ sdpc' = [sdpc EXCEPT ![c] = "shutdownHttps"]
            /\ sderr' = [sderr EXCEPT ![c] = ServerShutdownResult(c, "http")]
            /\ UNCHANGED << sdpanic, logOut >>
       ELSE GracefulReturns(c, ServerShutdownResult(c, "http"))
    /\ sdlnerr' = [sdlnerr EXCEPT ![c] = Nil]
    /\ UNCHANGED << optVars, envVars, sigVars, startVars, serverVars, errc, waitVars, sdforced, sdquiet >>

\* srv.httpsServer.Shutdown(ctx) begins.
SdBeginHttps(c) ==
    /\ sdpc[c] = "shutdownHttps"
    /\ ServerShutdownBegin(c, "https")
    /\ sdpc' = [sdpc EXCEPT ![c] = "pollHttps"]
    /\ UNCHANGED << optVars, envVars, sigVars, startVars, gpc, gerr, busy, errc, waitVars,
                    sderr, sdpanic, sdforced, sdquiet, logOut >>

\* srv.httpsServer.Shutdown(ctx) returns, and graceful with it.
SdPollHttps(c) ==
    /\ sdpc[c] = "pollHttps"
    /\ GracefulReturns(c, GracefulErr(sderr[c], ServerShutdownResult(c, "https")))
    /\ sdlnerr' = [sdlnerr EXCEPT ![c] = Nil]
    /\ UNCHANGED << optVars, envVars, sigVars, startVars, serverVars, errc, waitVars, sdforced, sdquiet >>

\* forceful: srv.httpServer.Close()
SdCloseHttp(c) ==
    /\ sdpc[c] = "closeHttp"
    /\ ServerClose("http")
    /\ sdforced' = [sdforced EXCEPT ![c] = Append(@, "http")]
    /\ sdpc' = [sdpc EXCEPT ![c] = IF srv.httpsServer THEN "closeHttps" ELSE SdEnd(c)]
    /\ UNCHANGED << optVars, envVars, sigVars, startVars, gpc, gerr, errc, waitVars,
                    sderr, sdlnerr, sdpanic, sdquiet, logOut >>

\* forceful: srv.httpsServer.Close()
SdCloseHttps(c) ==
    /\ sdpc[c] = "closeHttps"
    /\ ServerClose("https")
    /\ sdforced' = [sdforced EXCEPT ![c] = Append(@, "https")]
    /\ sdpc' = [sdpc EXCEPT ![c] = SdEnd(c)]
    /\ UNCHANGED << optVars, envVars, sigVars, startVars, gpc, gerr, errc, waitVars,
                    sderr, sdlnerr, sdpanic, sdquiet, logOut >>

\* ----------------------------------------------------------- specifications

\* One step of the program with the Shutdown calls CS and the Wait calls WS.
NextOf(CS, WS) ==
    \/ StartBegin
    \/ StartFinish
    \/ \E s \in Servers : Listen(s)
    \/ \E s \in Servers : ListenFail(s)
    \/ \E s \in Servers : ServeFail(s)
    \/ \E s \in Servers : ServeClosed(s)
    \/ \E s \in Servers : Send(s)
    \/ \E s \in Servers : ConnBegin(s)
    \/ \E s \in Servers : ConnEnd(s)
    \/ \E w \in WS : WaitCall(w)
    \/ \E w \in WS : WaitRecvHttp(w)
    \/ \E w \in WS : WaitRecvHttps(w)
    \/ \E c \in CS : SdBegin(c)
    \/ \E c \in CS : SdPollHttp(c)
    \/ \E c \in CS : SdBeginHttps(c)
    \/ \E c \in CS : SdPollHttps(c)
    \/ \E c \in CS : SdCloseHttp(c)
    \/ \E c \in CS : SdCloseHttps(c)

Next == NextOf(Callers, Waiters)

Spec == Init /\ [][Next]_vars

\* The steps of Shutdown call c after the call was made.
SdStep(c) ==
    \/ SdPollHttp(c)
    \/ SdBeginHttps(c)
    \/ SdPollHttps(c)
    \/ SdCloseHttp(c)
    \/ SdCloseHttps(c)

\* What the scheduler and the context deadline guarantee: Start goes on, a
\* goroutine that can run does, ListenAndServe returns once its listener is
\* closed, a receive on a non-empty channel completes, http.Server.Shutdown
\* returns (by the deadline at the latest) and Close returns.  Nothing makes a
\* caller call Wait or Shutdown, a listener fail, or a request end.
Fairness ==
    /\ WF_vars(StartFinish)
    /\ \A s \in Servers :
          /\ WF_vars(Listen(s) \/ ListenFail(s))
          /\ WF_vars(ServeClosed(s))
          /\ WF_vars(Send(s))
    /\ \A w \in FairWaiters : WF_vars(WaitRecvHttp(w) \/ WaitRecvHttps(w))
    /\ \A c \in FairCallers : WF_vars(SdStep(c))

FairNext == NextOf(FairCallers, FairWaiters)

\* The program under fair scheduling, with its own bounds on the calls.
FairSpec == Init /\ [][FairNext]_vars /\ Fairness

\* ------------------------------------------------- InterceptShutdownSignals

mainVars == << optVars, envVars, startVars, serverVars, errc, waitVars, sdVars >>

\* InterceptShutdownSignals(shutdown): the channel is made and handed to
\* signal.Notify, and the goroutine is started.  The calls are numbered in the
\* order they are made.
Intercept(r) ==
    /\ procAlive
    /\ sigpc[r] = "none"
    /\ IF r = 1 THEN TRUE ELSE sigpc[r - 1] # "none"
    /\ sigNotify' = [sigNotify EXCEPT ![r] = TRUE]
    /\ sigpc' = [sigpc EXCEPT ![r] = "recv"]
    /\ UNCHANGED << sigc, sigCalls, sigSeen, procAlive, mainVars >>

\* What the channels hold after sig was relayed: package signal sends without
\* blocking, so a full channel misses the signal.
Relayed(sig) ==
    [r \in Registrations |->
        IF sigNotify[r] /\ Len(sigc[r]) < SigCap THEN Append(sigc[r], sig) ELSE sigc[r]]

\* A signal is raised: one that can be caught is relayed to the channels handed
\* to signal.Notify, if there is any; otherwise the default behaviour of the
\* signal ends the process.
Signal(sig) ==
    /\ procAlive
    /\ sigSeen < MaxSignals
    /\ sigSeen' = sigSeen + 1
    /\ IF sig \in Catchable /\ (\E r \in Registrations : sigNotify[r])
       THEN sigc' = Relayed(sig) /\ UNCHANGED procAlive
       ELSE procAlive' = FALSE /\ UNCHANGED sigc
    /\ UNCHANGED << sigpc, sigNotify, sigCalls, mainVars >>

\* <-c
SigRecv(r) ==
    /\ procAlive
    /\ sigpc[r] = "recv"
    /\ sigc[r] # <<>>
    /\ sigc' = [sigc EXCEPT ![r] = Tail(@)]
    /\ sigpc' = [sigpc EXCEPT ![r] = "reset"]
    /\ UNCHANGED << sigNotify, sigCalls, sigSeen, procAlive, mainVars >>

\* A mutant of SigReset: signal.Reset() is not called.
SigResetSkipped(r) ==
    /\ procAlive
    /\ sigpc[r] = "reset"
    /\ sigpc' = [sigpc EXCEPT ![r] = "call"]
    /\ UNCHANGED << sigNotify, sigc, sigCalls, sigSeen, procAlive, mainVars >>

\* signal.Reset(): without arguments it undoes every Notify of the process.
SigReset(r) ==
    /\ procAlive
    /\ sigpc[r] = "reset"
    /\ sigNotify' = [x \in Registrations |-> FALSE]
    /\ sigpc' = [sigpc EXCEPT ![r] = "call"]
    /\ UNCHANGED << sigc, sigCalls, sigSeen, procAlive, mainVars >>

\* log.Println(...); shutdown()
SigShutdown(r) ==
    /\ procAlive
    /\ sigpc[r] = "call"
    /\ sigCalls' = [sigCalls EXCEPT ![r] = @ + 1]
    /\ sigpc' = [sigpc EXCEPT ![r] = "done"]
    /\ UNCHANGED << sigNotify, sigc, sigSeen, procAlive, mainVars >>

SignalNext ==
    \/ \E r \in Registrations : Intercept(r)
    \/ \E sig \in Signals : Signal(sig)
    \/ \E r \in Registrations : SigRecv(r)
    \/ \E r \in Registrations : SigReset(r)
    \/ \E r \in Registrations : SigShutdown(r)

\* The scheduler runs a goroutine that can take a step, while the process lives.
SignalFairness ==
    \A r \in Registrations :
        /\ WF_vars(SigRecv(r))
        /\ WF_vars(SigReset(r))
        /\ WF_vars(SigShutdown(r))

\* A process that calls InterceptShutdownSignals and is sent signals.
SignalInit ==
    /\ input = DevOptions
    /\ acmeURL = LetsEncryptProductionURL
    /\ cacheDirStat = "missing"
    /\ InitRest

SignalSpec == SignalInit /\ [][SignalNext]_vars /\ SignalFairness

VerifyNext == VerifyCall \/ BaseURLCall \/ StartBegin \/ StartFinish

VerifySpec == VerifyInit /\ [][VerifyNext]_vars

\* ------------------------------------------------------------------ claims

ShutdownInvoked == \E c \in Callers : sdpc[c] # "idle"
WaitPending(w) == wpc[w] \in {"recvHttp", "recvHttps"}
OnlyWait(w) == \A x \in Waiters \ {w} : wpc[x] = "idle"
FailedOnItsOwn(s) == gerr[s] \in OwnErrors
Ended(c) == sdpc[c] \in {"returned", "panicked"}
InGraceful(c) == sdpc[c] \in {"pollHttp", "shutdownHttps", "pollHttps"}
NumStarted == Cardinality({s \in Servers : Started(s)})
OnePass == IF srv.httpsServer THEN <<"http", "https">> ELSE <<"http">>

RECURSIVE FirstNonNil(_)
FirstNonNil(q) == IF q = <<>> THEN Nil
                  ELSE IF Head(q) # Nil THEN Head(q) ELSE FirstNonNil(Tail(q))

RECURSIVE Received(_)
Received(n) == IF n = 0 THEN 0 ELSE Len(wrecv[n]) + Received(n - 1)

\* C1: a Wait call that has returned received exactly one completion per
\* started listener execution (1 without TLS, 2 with TLS), and its result is the
\* first non-nil error among the completions it received, in the order it
\* received them, or nil if all were nil.
C1_WaitDrainsAndReturnsFirstError ==
    \A w \in Waiters : wpc[w] = "returned" =>
        /\ Len(wrecv[w]) = NumStarted
        /\ NumStarted = (IF startOpt.LetsEncrypt THEN 2 ELSE 1)
        /\ werr[w] = FirstNonNil(wrecv[w])

C1_Witness ==
    \E w \in Waiters :
        /\ wpc[w] = "returned"
        /\ wrecv[w] = <<OwnErr("https"), OwnErr("http")>>
        /\ werr[w] = OwnErr("https")

\* C2: when a listener execution has failed on its own and one Wait call is
\* pending, that call eventually returns, unless Shutdown is invoked or another
\* Wait call is made first.
C2_WaitReturnsAfterListenerFailure ==
    ((\E s \in Servers : FailedOnItsOwn(s)) /\ WaitPending(1) /\ OnlyWait(1))
        ~> (wpc[1] = "returned" \/ ShutdownInvoked \/ ~OnlyWait(1))

\* C3: once Shutdown is invoked (Start has returned), every started listener
\* execution eventually has reported its completion, and the completions sent
\* are always as many as the executions that reported; a single pending Wait
\* call eventually returns; and a Wait call that returns when no listener failed
\* on its own returns nil.
C3_ShutdownEndsListenersAndWait ==
    /\ ShutdownInvoked ~> (\A s \in Servers : Started(s) => gpc[s] = "done")
    /\ (ShutdownInvoked /\ WaitPending(1) /\ OnlyWait(1))
          ~> (wpc[1] = "returned" \/ ~OnlyWait(1))
    /\ [](Len(errc) + Received(MaxWaiters)
             = Cardinality({s \in Servers : gpc[s] = "done"}))
    /\ [](\A w \in Waiters :
             (wpc[w] = "returned" /\ ShutdownInvoked
                /\ \A s \in Servers : ~FailedOnItsOwn(s)) => werr[w] = Nil)

C3_Witness ==
    /\ ShutdownInvoked
    /\ \A s \in Servers : gpc[s] = "done" /\ ~FailedOnItsOwn(s)
    /\ wpc[1] = "returned" /\ werr[1] = Nil /\ Len(wrecv[1]) = 2

\* C4 as stated: when two or more Shutdown calls are made on one handle, no call
\* panics.
C4_NoCallPanics ==
    (MaxShutdowns >= 2 /\ sdpc[2] # "idle") => \A c \in Callers : sdpanic[c] = Nil

\* C4 as amended: a Shutdown call panics only with the error of a listener's
\* Close; a call made when every listener is already closed panics never and
\* changes nothing of the servers; a call that has ended applied one forceful
\* pass, Close on each server once; and a call that was made and has not ended
\* is never blocked: its next step can be taken, whatever the other calls do.
C4_RepeatedShutdown ==
    /\ [](\A c \in Callers : sdpanic[c] \in {Nil, ErrListenerClose})
    /\ [](\A c \in Callers : sdquiet[c] => sdpanic[c] = Nil /\ sdpc[c] # "panicked")
    /\ [][\A c \in Callers :
            (sdquiet'[c] /\ sdpc'[c] # sdpc[c]) => UNCHANGED << serverVars, errc >>]_vars
    /\ [](\A c \in Callers : Ended(c) => sdforced[c] = OnePass)
    /\ [](\A c \in Callers : (sdpc[c] # "idle" /\ ~Ended(c)) => ENABLED SdStep(c))

C4_Witness ==
    /\ sdpc[1] = "returned"
    /\ sdquiet[2] /\ sdpc[2] = "returned"

\* C5: every Shutdown call that has ended, by return or by panic, applied Close
\* to the plain server and then, when there is one, to the TLS server; and a
\* call applies Close only after its graceful phase has finished.
C5_ForcefulClosureAlways ==
    \A c \in Callers :
        /\ Ended(c) => sdforced[c] = OnePass
        /\ sdforced[c] # <<>> => ~InGraceful(c) /\ sdpc[c] # "idle"

C5_Witness ==
    \E c \in Callers : sdpc[c] = "panicked" /\ sdforced[c] = <<"http", "https">>

\* C6: Start returns a handle or an error, and after it returned an error no
\* listener execution has been started, no completion exists and no handle was
\* returned.
C6_StartFailsBeforeAnyListener ==
    /\ startpc = "returned" => startErr = Nil /\ srv.httpServer
    /\ startpc = "failed" =>
          /\ startErr # Nil
          /\ srv = NoServer
          /\ \A s \in Servers : ~Started(s)
          /\ errc = <<>>

C6_Witness == startpc = "failed" /\ startErr = ErrCacheNotDir

\* C7: whenever Start has returned a handle, each started listener is listening
\* or has reported its completion.
C7_StartReturnsAfterListening ==
    startpc = "returned" =>
        \A s \in Servers : Started(s) => gpc[s] \in {"serving", "done"}

\* C8: when graceful returns, the call panics if and only if the graceful
\* shutdown of the plain server or of the TLS server returned an error other
\* than the deadline's.
C8_NonDeadlineErrorPanics ==
    [][\A c \in Callers :
          /\ (sdpc[c] = "pollHttp" /\ sdpc'[c] # "pollHttp" /\ ~srv.httpsServer) =>
                (sdpanic'[c] # Nil <=> Panics(ServerShutdownResult(c, "http")))
          /\ (sdpc[c] = "pollHttps" /\ sdpc'[c] # "pollHttps") =>
                (sdpanic'[c] # Nil <=>
                    (Panics(sderr[c]) \/ Panics(ServerShutdownResult(c, "https"))))
      ]_vars

\* C9: a record on which Verify succeeded with LetsEncrypt set is not local,
\* has a host, an email and a cache dir, and has Port 80; so no record on which
\* Verify succeeded is both local and in TLS mode.
C9_VerifiedTLSRecord ==
    (verifyErr = Nil /\ sopt.LetsEncrypt) =>
        /\ ~sopt.IsLocalDevelopmentHost
        /\ sopt.Host # S_empty
        /\ sopt.LetsEncryptEmail # ""
        /\ sopt.LetsEncryptCacheDir # ""
        /\ sopt.Port = HTTPPort

C9_Witness == verifyErr = Nil /\ sopt.LetsEncrypt /\ input.Port = 0

\* C10 as stated: after Verify on a record with LetsEncrypt set whose resolved
\* port is not 80, the error is the port-mismatch error.
C10_PortMismatchError ==
    (verifyCalls > 0 /\ sopt.LetsEncrypt /\ sopt.Port # 0 /\ sopt.Port # HTTPPort)
        => verifyErr = ErrPort

\* C10 as amended: after Verify on a record with LetsEncrypt set, a port that was
\* given is unchanged, and if the resolved port is not 80 Verify failed: with the
\* port-mismatch error when the host is not local and the email and the cache
\* dir are set, and with the error of the first of these checks that fails
\* otherwise.
C10_PortMismatchFails ==
    (verifyCalls > 0 /\ sopt.LetsEncrypt) =>
        /\ input.Port # 0 => sopt.Port = input.Port
        /\ (sopt.Port # 0 /\ sopt.Port # HTTPPort) =>
              /\ verifyErr \in {ErrLocalhost, ErrMissingEmail, ErrMissingCacheDir, ErrPort}
              /\ verifyErr = ErrLocalhost <=> sopt.IsLocalDevelopmentHost
              /\ verifyErr = ErrPort <=>
                    /\ ~sopt.IsLocalDevelopmentHost
                    /\ sopt.LetsEncryptEmail # ""
                    /\ sopt.LetsEncryptCacheDir # ""

C10_Witness ==
    verifyCalls > 0 /\ sopt.LetsEncrypt /\ sopt.Port = 8080 /\ verifyErr = ErrPort

\* The development default: no host, no port, no TLS.
DevDefault == input.Host = S_empty /\ input.Port = 0 /\ ~input.LetsEncrypt
\* The base URL of a local server on DefaultDevPort.
DevURL == S_http \o S_schemeSep \o S_localhostColon \o Itoa(input.DefaultDevPort)
S_devURL3001 == <<"h","t","t","p",":","/","/","l","o","c","a","l","h","o","s","t",":","3","0","0","1">>
S_loopback8080 == <<"1","2","7",".","0",".","0",".","1",":","8","0","8","0">>
S_myhostURL == <<"h","t","t","p","s",":","/","/">> \o S_myhost

\* C11 as stated: after Verify on a record without host, port and TLS, the record
\* is local, has scheme "http" and host "localhost:<DefaultDevPort>", BaseURL is
\* "http://localhost:<DefaultDevPort>", and a started server has exactly that
\* endpoint.
C11_DevDefaultVerified ==
    /\ (DevDefault /\ verifyCalls > 0) =>
          /\ sopt.IsLocalDevelopmentHost
          /\ sopt.PrimaryScheme = S_http
          /\ sopt.Host = S_localhostColon \o Itoa(input.DefaultDevPort)
          /\ BaseURL(sopt) = [panic |-> Nil, url |-> DevURL]
    /\ (DevDefault /\ startpc = "returned") => srv.endpoints = <<DevURL>>

\* C11 as amended: on such a record Verify always sets the local flag; with a
\* non-zero DefaultDevPort it succeeds and sets Port, scheme "http" and host
\* "localhost:<DefaultDevPort>", BaseURL is "http://localhost:<DefaultDevPort>"
\* and a started server has exactly that endpoint; with DefaultDevPort zero
\* Verify fails with the missing-port error, sets neither scheme nor host, and
\* Start fails with the same error.
C11_DevDefault ==
    DevDefault =>
        /\ verifyCalls > 0 => sopt.IsLocalDevelopmentHost
        /\ (verifyCalls > 0 /\ input.DefaultDevPort # 0) =>
              /\ verifyErr = Nil
              /\ sopt.Port = input.DefaultDevPort
              /\ sopt.PrimaryScheme = S_http
              /\ sopt.Host = S_localhostColon \o Itoa(input.DefaultDevPort)
              /\ BaseURL(sopt) = [panic |-> Nil, url |-> DevURL]
        /\ (verifyCalls > 0 /\ input.DefaultDevPort = 0) =>
              /\ verifyErr = ErrMissingPort
              /\ sopt.PrimaryScheme = S_empty
              /\ sopt.Host = S_empty
              /\ BaseURL(sopt).panic # Nil
        /\ startpc = "returned" =>
              /\ input.DefaultDevPort # 0
              /\ srv.baseURL = DevURL
              /\ srv.endpoints = <<DevURL>>
        /\ (startpc = "failed" /\ input.DefaultDevPort = 0) => startErr = ErrMissingPort

C11_Witness ==
    /\ DevDefault /\ verifyErr = Nil
    /\ sopt.Host = S_localhostColon \o <<"3","0","0","1">>
    /\ startpc = "returned" /\ srv.endpoints = <<S_devURL3001>>

\* C12: the endpoints of a started server begin with the server's base URL,
\* "<scheme>://<host>"; there is a second and last endpoint, "127.0.0.1:<port>",
\* if and only if the verified record is not local and its port is not 80; the
\* record is local exactly for the hosts "", "localhost" and "localhost:...",
\* and its port is the one given, or DefaultDevPort or 80 when none was given.
C12_Endpoints ==
    startpc = "returned" =>
        /\ Len(srv.endpoints) \in {1, 2}
        /\ srv.endpoints[1] = srv.baseURL
        /\ srv.baseURL = startOpt.PrimaryScheme \o S_schemeSep \o startOpt.Host
        /\ Len(srv.endpoints) = 2 <=>
              (~startOpt.IsLocalDevelopmentHost /\ startOpt.Port # HTTPPort)
        /\ Len(srv.endpoints) = 2 =>
              srv.endpoints[2] = S_loopbackColon \o Itoa(startOpt.Port)
        /\ startOpt.IsLocalDevelopmentHost <=> input.Host # S_myhost
        /\ startOpt.Port = (IF input.Port # 0 THEN input.Port
                            ELSE IF input.Host # S_myhost THEN input.DefaultDevPort
                            ELSE HTTPPort)

C12_Witness ==
    /\ startpc = "returned" /\ input.Port = 8080 /\ input.Host = S_myhost
    /\ Len(srv.endpoints) = 2 /\ srv.endpoints[2] = S_loopback8080

\* The server runs on a public host, without TLS, on port 8080.
PlainOn8080 ==
    /\ startpc = "returned"
    /\ ~startOpt.IsLocalDevelopmentHost /\ ~startOpt.LetsEncrypt /\ startOpt.Port = 8080

\* C13 as stated: the endpoints of a server started on a public host, without
\* TLS, on port 8080 are exactly one.
C13_SingleEndpoint == PlainOn8080 => Len(srv.endpoints) = 1

\* C13 as amended: the endpoints of such a server are exactly two, the base URL
\* "https://<host>" and then "127.0.0.1:8080".
C13_TwoEndpoints ==
    PlainOn8080 =>
        /\ srv.baseURL = S_https \o S_schemeSep \o startOpt.Host
        /\ srv.endpoints = <<srv.baseURL, S_loopback8080>>

C13_Witness ==
    PlainOn8080 /\ input = PlainOptions /\ srv.endpoints = <<S_myhostURL, S_loopback8080>>

\* C14: Options.BaseURL panics on a record on which Verify was not called or
\* returned an error; on a record on which Verify returned nil it does not panic
\* and returns "<scheme>://<host>", with scheme "http" or "https" and a host;
\* and every call the caller makes ends accordingly.
C14_BaseURLPanics ==
    /\ [](verifyErr # Nil => BaseURL(sopt).panic # Nil)
    /\ [](verifyErr = Nil =>
             /\ sopt.PrimaryScheme \in {S_http, S_https}
             /\ sopt.Host # S_empty
             /\ BaseURL(sopt) = [panic |-> Nil,
                                 url |-> sopt.PrimaryScheme \o S_schemeSep \o sopt.Host])
    /\ [][BaseURLCall =>
             baseURLResult' = (IF verifyErr = Nil
                               THEN <<"url", sopt.PrimaryScheme \o S_schemeSep \o sopt.Host>>
                               ELSE <<"panic", "BaseURL before Verify">>)]_vars

C14_Witness ==
    /\ verifyErr = ErrMissingEmail /\ sopt.Host = S_myhost
    /\ baseURLResult = <<"panic", "BaseURL before Verify">>

\* The graceful phase of call c ends in this step with the deadline's error.
GracefulTimesOut(c) ==
    \/ /\ sdpc[c] = "pollHttp" /\ sdpc'[c] # "pollHttp" /\ ~srv.httpsServer
       /\ ServerShutdownResult(c, "http") = DeadlineExceeded
    \/ /\ sdpc[c] = "pollHttps" /\ sdpc'[c] # "pollHttps"
       /\ GracefulErr(sderr[c], ServerShutdownResult(c, "https")) = DeadlineExceeded

\* C15: when the graceful phase of a Shutdown call ends by deadline expiry on a
\* server started with an Options.Log function, one warning is handed to that
\* function, before the call applies Close to any server.
C15_TimeoutWarningLogged ==
    [][\A c \in Callers :
          (startOpt.Log # Nil /\ GracefulTimesOut(c)) =>
              /\ Len(logOut') = Len(logOut) + 1
              /\ sdforced'[c] = <<>>
      ]_vars

C17_GracefulIsConcurrent ==
    \A c \in Callers : (InGraceful(c) /\ srv.httpsServer) => inShutdown["https"]

\* The listener executions that have not reported yet.
Unreported == {s \in Servers : gpc[s] \in {"spawned", "serving", "send"}}

\* C18: the completion channel has room for the completion of every listener
\* execution that has not reported yet, so an execution that is about to send
\* can send, whether or not Wait was called; and it eventually has sent.
C18_SendNeverBlocks ==
    /\ [](Len(errc) + Cardinality(Unreported) <= ErrcCap)
    /\ [](\A s \in Servers : gpc[s] = "send" => ENABLED Send(s))
    /\ \A s \in Servers : (gpc[s] = "send") ~> (gpc[s] = "done")

C18_Witness ==
    /\ \A s \in Servers : gpc[s] = "done"
    /\ Len(errc) = 2
    /\ \A w \in Waiters : wpc[w] = "idle"

\* C19: a Verify call on a record on which Verify returned nil returns nil and
\* leaves the record as it is; and whether the caller verified the record
\* beforehand or not, Start goes the same way, and a started server has the base
\* URL and the endpoints of the verified raw record.
C19_VerifyIdempotent ==
    /\ [][(verifyCalls' = verifyCalls + 1 /\ verifyErr = Nil) =>
             (verifyErr' = Nil /\ sopt' = sopt)]_vars
    /\ [](verifyErr = Nil =>
             /\ Verify(sopt) = [err |-> Nil, opt |-> sopt]
             /\ sopt = Verify(input).opt
             /\ LET a == StartOutcome(sopt, acmeURL, cacheDirStat)
                    b == StartOutcome(input, acmeURL, cacheDirStat)
                IN  a.pc = b.pc /\ a.err = b.err /\ a.srv = b.srv /\ a.spawned = b.spawned)
    /\ [](startpc = "returned" =>
             /\ srv.baseURL = BaseURL(Verify(input).opt).url
             /\ srv.endpoints = StartEndpoints(Verify(input).opt))

C19_Witness ==
    /\ verifyCalls = 2 /\ verifyErr = Nil
    /\ input.Host = S_empty /\ sopt.Host = S_localhostColon \o <<"3","0","0","1">>
    /\ startpc = "returned"

\* C20: at most one Wait call has returned; every completion received was sent
\* by a listener execution and is received by one call only; no call receives
\* more completions than there are listener executions.
C20_AtMostOneWaitReturns ==
    /\ Cardinality({w \in Waiters : wpc[w] = "returned"}) <= 1
    /\ Len(errc) + Received(MaxWaiters) = Cardinality({s \in Servers : gpc[s] = "done"})
    /\ \A w \in Waiters : Len(wrecv[w]) <= NumStarted

C20_Witness ==
    /\ wpc[2] = "returned" /\ WaitPending(1)
    /\ errc = <<>> /\ Unreported = {}

====
